---- MODULE Spec2Model ----
(***************************************************************************)
(* Model of homework.py: the training calculator (Running, SportsWalking,  *)
(* Swimming), the dispatcher read_package, the report InfoMessage and the  *)
(* driver loop that prints one report line per package.                    *)
(*                                                                         *)
(* Numbers.  Python computes in binary floating point; the model computes  *)
(* in exact rational arithmetic.  A number is a pair <<n, d>> with d > 0   *)
(* and gcd(n, d) = 1, so that equal numbers are equal values.  The input   *)
(* sets below hold no value for which the rounding of a double changes a   *)
(* floor or a three-decimal rendering, and none that yields a negative     *)
(* zero.                                                                   *)
(*                                                                         *)
(* Exceptions.  A Python operation that raises is modelled by a predicate  *)
(* ..._raises next to the operator that gives its value when it does not   *)
(* raise; an action that meets a raise stores the exception class in       *)
(* `error` and moves to pc = "crashed", from which no action is enabled    *)
(* (the traceback ends the process).                                       *)
(***************************************************************************)
EXTENDS Integers, Sequences, FiniteSets, TLC

VARIABLES packages, idx, pc, training, info, training_message, stdout, error

vars == <<packages, idx, pc, training, info, training_message, stdout, error>>

(***************************************************************************)
(* Bounds of the model.                                                    *)
(***************************************************************************)
\* longest package list drawn for the driver, besides the list of the source
MaxPackages == 2
\* the action counts compared for monotonicity are 3000 * k, k <= MaxActionSteps
MaxActionSteps == 5
\* the floor of a squared speed over a height is looked for in 0..FloorBound
FloorBound == 100

(***************************************************************************)
(* Rational arithmetic standing for Python's float arithmetic.             *)
(***************************************************************************)
Abs(n) == IF n < 0 THEN -n ELSE n

RECURSIVE GCD(_, _)
GCD(a, b) == IF b = 0 THEN a ELSE GCD(b, a % b)

\* the number n / d in lowest terms with a positive denominator (d # 0)
Frac(n, d) ==
    LET g == GCD(Abs(n), Abs(d))
        s == IF d < 0 THEN -1 ELSE 1
    IN  <<(s * n) \div g, (s * d) \div g>>

FromInt(i) == <<i, 1>>

Zero == FromInt(0)

\* x + y
Plus(x, y) == Frac(x[1] * y[2] + y[1] * x[2], x[2] * y[2])

\* x - y
Minus(x, y) == Frac(x[1] * y[2] - y[1] * x[2], x[2] * y[2])

\* x * y
Times(x, y) == Frac(x[1] * y[1], x[2] * y[2])

\* x / y, for y # 0 (Python raises ZeroDivisionError when y = 0)
TrueDiv(x, y) == Frac(x[1] * y[2], x[2] * y[1])

\* x // y, for y # 0: the floor of the quotient, as a number
FloorDiv(x, y) ==
    LET q == TrueDiv(x, y)
    IN  FromInt(q[1] \div q[2])

\* x ** 2
Pow2(x) == Times(x, x)

\* x <= y
Leq(x, y) == x[1] * y[2] <= y[1] * x[2]

\* x < y
Less(x, y) == x[1] * y[2] < y[1] * x[2]

\* the rendering of x by the format spec .3f: x in thousandths, rounded to
\* the nearest, a tie going to the even thousandth
Format3f(x) ==
    LET n == x[1] * 1000
        q == n \div x[2]
        r == n % x[2]
    IN  IF 2 * r > x[2] THEN q + 1
        ELSE IF 2 * r < x[2] THEN q
        ELSE IF q % 2 = 0 THEN q ELSE q + 1

(***************************************************************************)
(* class Training and its subclasses.  A record of the model is a Python   *)
(* object: cls is its class, the other fields its attributes.              *)
(***************************************************************************)
M_IN_KM == 1000

MIN_IN_HOUR == 60

\* mutant of LEN_STEP: the override of Swimming leaks into the base class
LEN_STEP_AllSwimming(cls) == Frac(138, 100)

\* the class attribute LEN_STEP as looked up on an object of class cls
LEN_STEP(cls) == IF cls = "Swimming" THEN Frac(138, 100) ELSE Frac(65, 100)

RUN_COEFF_CAL_1 == 18

RUN_COEFF_CAL_2 == 20

WLK_COEFF_CAL_1 == Frac(35, 1000)

WLK_COEFF_CAL_2 == Frac(29, 1000)

SWM_COEFF_CAL_1 == Frac(11, 10)

SWM_COEFF_CAL_2 == 2

\* number of positional parameters of cls.__init__ after self
Arity(cls) ==
    CASE cls = "Running" -> 3
      [] cls = "SportsWalking" -> 4
      [] cls = "Swimming" -> 5

\* cls(*data), for Len(data) = Arity(cls)
Construct(cls, data) ==
    CASE cls = "Running" ->
            [cls |-> cls, action |-> data[1], duration |-> data[2],
             weight |-> data[3]]
      [] cls = "SportsWalking" ->
            [cls |-> cls, action |-> data[1], duration |-> data[2],
             weight |-> data[3], height |-> data[4]]
      [] cls = "Swimming" ->
            [cls |-> cls, action |-> data[1], duration |-> data[2],
             weight |-> data[3], length_pool |-> data[4],
             count_pool |-> data[5]]

get_distance(t) ==
    TrueDiv(Times(t.action, LEN_STEP(t.cls)), FromInt(M_IN_KM))

Training_get_mean_speed(t) == TrueDiv(get_distance(t), t.duration)

Swimming_get_mean_speed(t) ==
    TrueDiv(TrueDiv(Times(t.length_pool, t.count_pool), FromInt(M_IN_KM)),
            t.duration)

\* mutant of get_mean_speed_raises: a validation that rejects every
\* duration <= 0
get_mean_speed_raises_NonPositive(t) == t.duration[1] <= 0

\* both definitions of get_mean_speed end in a division by self.duration
get_mean_speed_raises(t) == t.duration = Zero

\* mutant of get_mean_speed: Swimming does not override the base method
get_mean_speed_NoOverride(t) == TrueDiv(get_distance(t), t.duration)

get_mean_speed(t) ==
    IF t.cls = "Swimming" THEN Swimming_get_mean_speed(t)
    ELSE Training_get_mean_speed(t)

\* mutant of Running_get_spent_calories: the second coefficient is added
Running_get_spent_calories_Plus(t) ==
    Times(Times(TrueDiv(Times(Plus(Times(FromInt(RUN_COEFF_CAL_1),
                                         get_mean_speed(t)),
                                   FromInt(RUN_COEFF_CAL_2)),
                              t.weight),
                        FromInt(M_IN_KM)),
                t.duration),
          FromInt(MIN_IN_HOUR))

\* mutant of Running_get_spent_calories: the operands of the subtraction
\* are exchanged
Running_get_spent_calories_Swapped(t) ==
    Times(Times(TrueDiv(Times(Minus(FromInt(RUN_COEFF_CAL_2),
                                    Times(FromInt(RUN_COEFF_CAL_1),
                                          get_mean_speed(t))),
                              t.weight),
                        FromInt(M_IN_KM)),
                t.duration),
          FromInt(MIN_IN_HOUR))

Running_get_spent_calories(t) ==
    Times(Times(TrueDiv(Times(Minus(Times(FromInt(RUN_COEFF_CAL_1),
                                          get_mean_speed(t)),
                                    FromInt(RUN_COEFF_CAL_2)),
                              t.weight),
                        FromInt(M_IN_KM)),
                t.duration),
          FromInt(MIN_IN_HOUR))

\* mutant of SportsWalking_get_spent_calories: the squared speed is floored
\* first and then divided by the height
SportsWalking_get_spent_calories_FloorFirst(t) ==
    Times(Times(Plus(Times(WLK_COEFF_CAL_1, t.weight),
                     Times(Times(TrueDiv(FloorDiv(Pow2(get_mean_speed(t)),
                                                  FromInt(1)),
                                         t.height),
                                 WLK_COEFF_CAL_2),
                           t.weight)),
                t.duration),
          FromInt(MIN_IN_HOUR))

SportsWalking_get_spent_calories(t) ==
    Times(Times(Plus(Times(WLK_COEFF_CAL_1, t.weight),
                     Times(Times(FloorDiv(Pow2(get_mean_speed(t)), t.height),
                                 WLK_COEFF_CAL_2),
                           t.weight)),
                t.duration),
          FromInt(MIN_IN_HOUR))

Swimming_get_spent_calories(t) ==
    Times(Times(Plus(get_mean_speed(t), SWM_COEFF_CAL_1),
                FromInt(SWM_COEFF_CAL_2)),
          t.weight)

\* get_spent_calories calls get_mean_speed; SportsWalking then floor-divides
\* by self.height
get_spent_calories_raises(t) ==
    \/ get_mean_speed_raises(t)
    \/ t.cls = "SportsWalking" /\ t.height = Zero

get_spent_calories(t) ==
    CASE t.cls = "Running" -> Running_get_spent_calories(t)
      [] t.cls = "SportsWalking" -> SportsWalking_get_spent_calories(t)
      [] t.cls = "Swimming" -> Swimming_get_spent_calories(t)

\* show_training_info evaluates get_distance, get_mean_speed and
\* get_spent_calories in this order; get_distance never raises
show_training_info_raises(t) ==
    get_mean_speed_raises(t) \/ get_spent_calories_raises(t)

show_training_info(t) ==
    [training_type |-> t.cls,
     duration |-> t.duration,
     distance |-> get_distance(t),
     speed |-> get_mean_speed(t),
     calories |-> get_spent_calories(t)]

(***************************************************************************)
(* InfoMessage.get_message: the template filled in.  The fixed text of the *)
(* template is the same in every line; the line is modelled by its five    *)
(* rendered fields, the four numbers in thousandths.                       *)
(***************************************************************************)
get_message(m) ==
    [training_type |-> m.training_type,
     duration |-> Format3f(m.duration),
     distance |-> Format3f(m.distance),
     speed |-> Format3f(m.speed),
     calories |-> Format3f(m.calories)]

(***************************************************************************)
(* read_package.                                                           *)
(***************************************************************************)
\* mutant of workout_dict: the classes of RUN and WLK are exchanged
workout_dict_Swapped ==
    [SWM |-> "Swimming", RUN |-> "SportsWalking", WLK |-> "Running"]

workout_dict ==
    [SWM |-> "Swimming", RUN |-> "Running", WLK |-> "SportsWalking"]

\* mutant of read_package_raises: surplus fields are dropped without an error
read_package_raises_TooFew(workout_type, data) ==
    IF workout_type \notin DOMAIN workout_dict THEN "KeyError"
    ELSE IF Len(data) < Arity(workout_dict[workout_type]) THEN "TypeError"
    ELSE "none"

\* the exception read_package(workout_type, data) raises, or "none"
read_package_raises(workout_type, data) ==
    IF workout_type \notin DOMAIN workout_dict THEN "KeyError"
    ELSE IF Len(data) # Arity(workout_dict[workout_type]) THEN "TypeError"
    ELSE "none"

\* the value read_package(workout_type, data) returns when it does not raise
read_package(workout_type, data) ==
    Construct(workout_dict[workout_type], data)

\* print(line): the line is appended to standard output
print(out, line) == Append(out, line)

(***************************************************************************)
(* Inputs.                                                                 *)
(***************************************************************************)
\* the list of the source
SourcePackages ==
    << <<"SWM", <<FromInt(720), FromInt(1), FromInt(80), FromInt(25),
                  FromInt(40)>> >>,
       <<"RUN", <<FromInt(15000), FromInt(1), FromInt(75)>> >>,
       <<"WLK", <<FromInt(9000), FromInt(1), FromInt(75), FromInt(180)>> >> >>

RunSamples ==
    {<<"RUN", <<FromInt(a), d, FromInt(75)>> >> :
        a \in {9000, 15000},
        d \in {FromInt(1), Frac(1, 2), Zero, FromInt(-1)}}
    \cup {<<"RUN", <<Zero, FromInt(1), FromInt(75)>> >>}

WlkSamples ==
    {<<"WLK", <<FromInt(a), d, FromInt(75), FromInt(h)>> >> :
        a \in {9000, 15000}, d \in {FromInt(1), Frac(1, 2)}, h \in {180, 5}}
    \cup {<<"WLK", <<FromInt(9000), Zero, FromInt(75), FromInt(180)>> >>,
          <<"WLK", <<FromInt(9000), FromInt(-1), FromInt(75), FromInt(5)>> >>,
          <<"WLK", <<FromInt(9000), FromInt(1), FromInt(75), Zero>> >>}

SwmSamples ==
    {<<"SWM", <<FromInt(720), d, FromInt(80), FromInt(25), FromInt(c)>> >> :
        d \in {FromInt(1), FromInt(2)}, c \in {40, 20}}
    \cup {<<"SWM", <<FromInt(720), d, FromInt(80), FromInt(25),
                     FromInt(40)>> >> : d \in {Zero, FromInt(-1)}}

\* unknown codes, and known codes with too few or too many fields
BadSamples ==
    {<<"XYZ", <<FromInt(15000), FromInt(1), FromInt(75)>> >>,
     <<"XYZ", <<FromInt(15000), FromInt(1)>> >>,
     <<"RUN", <<FromInt(15000), FromInt(1)>> >>,
     <<"RUN", <<FromInt(9000), FromInt(1), FromInt(75), FromInt(180)>> >>,
     <<"WLK", <<FromInt(9000), FromInt(1), FromInt(75)>> >>,
     <<"WLK", <<FromInt(720), FromInt(1), FromInt(80), FromInt(25),
                FromInt(40)>> >>,
     <<"SWM", <<FromInt(9000), FromInt(1), FromInt(75), FromInt(180)>> >>,
     <<"SWM", <<FromInt(720), FromInt(1), FromInt(80), FromInt(25),
                FromInt(40), FromInt(1)>> >>}

Samples == RunSamples \cup WlkSamples \cup SwmSamples \cup BadSamples

\* one sample that is reported and one for each of the three failures; the
\* driver also runs every list of three of them
DriverSamples ==
    {<<"RUN", <<FromInt(15000), FromInt(1), FromInt(75)>> >>,
     <<"XYZ", <<FromInt(15000), FromInt(1), FromInt(75)>> >>,
     <<"WLK", <<FromInt(9000), FromInt(1), FromInt(75)>> >>,
     <<"SWM", <<FromInt(720), Zero, FromInt(80), FromInt(25),
                FromInt(40)>> >>}

NoTraining == [cls |-> "None"]

NoInfo == [training_type |-> "None"]

NoMessage == [training_type |-> "None"]

(***************************************************************************)
(* The driver: for workout_type, data in packages: training =              *)
(* read_package(workout_type, data); main(training).                       *)
(***************************************************************************)
Init ==
    /\ packages \in {SourcePackages}
                    \cup UNION {[1..n -> Samples] : n \in 0..MaxPackages}
                    \cup [1..3 -> DriverSamples]
    /\ idx = 1
    /\ pc = "loop"
    /\ training = NoTraining
    /\ info = NoInfo
    /\ training_message = NoMessage
    /\ stdout = <<>>
    /\ error = "none"

\* mutant of ReadPackage: the exception is caught, recorded, and the loop
\* goes on with the next package
ReadPackage_Recover ==
    /\ pc = "loop"
    /\ idx <= Len(packages)
    /\ LET workout_type == packages[idx][1]
           data == packages[idx][2]
           exc == read_package_raises(workout_type, data)
       IN  IF exc # "none"
           THEN /\ error' = exc
                /\ idx' = idx + 1
                /\ UNCHANGED <<pc, training>>
           ELSE /\ training' = read_package(workout_type, data)
                /\ pc' = "main"
                /\ UNCHANGED <<idx, error>>
    /\ UNCHANGED <<packages, info, training_message, stdout>>

\* training = read_package(workout_type, data) for the package at idx
ReadPackage ==
    /\ pc = "loop"
    /\ idx <= Len(packages)
    /\ LET workout_type == packages[idx][1]
           data == packages[idx][2]
           exc == read_package_raises(workout_type, data)
       IN  IF exc # "none"
           THEN /\ error' = exc
                /\ pc' = "crashed"
                /\ UNCHANGED training
           ELSE /\ training' = read_package(workout_type, data)
                /\ pc' = "main"
                /\ UNCHANGED error
    /\ UNCHANGED <<packages, idx, info, training_message, stdout>>

\* mutant of Main: reporting resets the action counter of the record
Main_Mutating ==
    /\ pc = "main"
    /\ IF show_training_info_raises(training)
       THEN /\ error' = "ZeroDivisionError"
            /\ pc' = "crashed"
            /\ UNCHANGED <<idx, info, training_message, stdout, training>>
       ELSE /\ info' = show_training_info(training)
            /\ training_message' = get_message(info')
            /\ stdout' = print(stdout, training_message')
            /\ training' = [training EXCEPT !.action = Zero]
            /\ idx' = idx + 1
            /\ pc' = "loop"
            /\ UNCHANGED error
    /\ UNCHANGED packages

\* main(training): info = training.show_training_info();
\* training_message = info.get_message(); print(training_message)
Main ==
    /\ pc = "main"
    /\ IF show_training_info_raises(training)
       THEN /\ error' = "ZeroDivisionError"
            /\ pc' = "crashed"
            /\ UNCHANGED <<idx, info, training_message, stdout>>
       ELSE /\ info' = show_training_info(training)
            /\ training_message' = get_message(info')
            /\ stdout' = print(stdout, training_message')
            /\ idx' = idx + 1
            /\ pc' = "loop"
            /\ UNCHANGED error
    /\ UNCHANGED <<packages, training>>

\* the for loop is exhausted and the script ends
Exit ==
    /\ pc = "loop"
    /\ idx > Len(packages)
    /\ pc' = "done"
    /\ UNCHANGED <<packages, idx, training, info, training_message, stdout,
                   error>>

Next == ReadPackage \/ Main \/ Exit

Spec == Init /\ [][Next]_vars

(***************************************************************************)
(* Properties.  Reported holds right after main has printed the report of  *)
(* package idx - 1: training is the record built from that package, info   *)
(* its InfoMessage and training_message the line printed.  Built holds     *)
(* when the record of package idx has been constructed and main has been   *)
(* entered for it.                                                         *)
(***************************************************************************)
Reported == pc \in {"loop", "done"} /\ idx > 1

Last == packages[idx - 1]

Positive(x) == Less(Zero, x)

\* 0.65 / 1000 and 1.38 / 1000, the kilometres per action
KmPerStep == TrueDiv(Frac(65, 100), FromInt(1000))

KmPerStroke == TrueDiv(Frac(138, 100), FromInt(1000))

\* C1: for every Running record built from (action, duration > 0,
\* weight > 0), the distance is action * 0.65 / 1000, the mean speed is the
\* distance / duration and the calories are
\* (18 * mean_speed - 20) * weight / 1000 * duration * 60; the report of the
\* record carries these three values.
C1_RunningFormulas ==
    (Reported /\ Last[1] = "RUN" /\ Positive(Last[2][2])
        /\ Positive(Last[2][3]))
    => LET action == Last[2][1]
           duration == Last[2][2]
           weight == Last[2][3]
           distance == Times(action, KmPerStep)
           mean_speed == TrueDiv(distance, duration)
           calories ==
               Times(Times(Times(Minus(Times(FromInt(18), mean_speed),
                                       FromInt(20)),
                                 TrueDiv(weight, FromInt(1000))),
                           duration),
                     FromInt(60))
       IN  /\ training.cls = "Running"
           /\ get_distance(training) = distance
           /\ get_mean_speed(training) = mean_speed
           /\ get_spent_calories(training) = calories
           /\ info.distance = distance
           /\ info.speed = mean_speed
           /\ info.calories = calories

\* a Running record of half an hour and 15000 steps has been reported
C1_Witness ==
    /\ Reported
    /\ Last = <<"RUN", <<FromInt(15000), Frac(1, 2), FromInt(75)>> >>
    /\ training.cls = "Running"
    /\ info.calories = Frac(2979, 4)

\* C2: for every SportsWalking record built from (action, duration > 0,
\* weight, height > 0), the calories are
\* (0.035 * weight + k * 0.029 * weight) * duration * 60, where k is the
\* integer with k <= mean_speed^2 / height < k + 1 and mean_speed is
\* (action * 0.65 / 1000) / duration.
C2_WalkingFormula ==
    (Reported /\ Last[1] = "WLK" /\ Positive(Last[2][2])
        /\ Positive(Last[2][4]))
    => LET action == Last[2][1]
           duration == Last[2][2]
           weight == Last[2][3]
           height == Last[2][4]
           mean_speed == TrueDiv(Times(action, KmPerStep), duration)
           quotient == TrueDiv(Times(mean_speed, mean_speed), height)
       IN  /\ training.cls = "SportsWalking"
           /\ get_mean_speed(training) = mean_speed
           /\ \E k \in 0..FloorBound :
                /\ Leq(FromInt(k), quotient)
                /\ Less(quotient, FromInt(k + 1))
                /\ info.calories =
                     Times(Times(Plus(Times(Frac(35, 1000), weight),
                                      Times(Times(FromInt(k),
                                                  Frac(29, 1000)),
                                            weight)),
                                 duration),
                           FromInt(60))

\* a SportsWalking record has been reported for which the floor of the
\* quotient is positive and differs both from the quotient and from the
\* floored square divided by the height: 9000 steps in an hour, height 5,
\* speed 5.85, square 34.2225, quotient 6.8445, floor 6
C2_Witness ==
    /\ Reported
    /\ Last = <<"WLK", <<FromInt(9000), FromInt(1), FromInt(75),
                         FromInt(5)>> >>
    /\ info.speed = Frac(585, 100)
    /\ info.calories = Frac(9405, 10)

\* C3: for every Swimming record built from (action, duration > 0, weight,
\* pool_length, lap_count), the mean speed is
\* pool_length * lap_count / 1000 / duration whatever the action, the
\* calories are (mean_speed + 1.1) * 2 * weight, and the distance is
\* action * 1.38 / 1000 whatever the pool length and the lap count.
C3_SwimmingFormulas ==
    (Reported /\ Last[1] = "SWM" /\ Positive(Last[2][2]))
    => LET action == Last[2][1]
           duration == Last[2][2]
           weight == Last[2][3]
           pool_length == Last[2][4]
           lap_count == Last[2][5]
           mean_speed ==
               TrueDiv(TrueDiv(Times(pool_length, lap_count),
                               FromInt(1000)),
                       duration)
           calories ==
               Times(Times(Plus(mean_speed, Frac(11, 10)), FromInt(2)),
                     weight)
       IN  /\ training.cls = "Swimming"
           /\ info.speed = mean_speed
           /\ info.calories = calories
           /\ info.distance = Times(action, KmPerStroke)
           /\ \A a \in {0, 720, 1440} :
                get_mean_speed([training EXCEPT !.action = FromInt(a)])
                    = mean_speed
           /\ \A l \in {0, 25, 50}, c \in {0, 40} :
                get_distance([training EXCEPT !.length_pool = FromInt(l),
                                              !.count_pool = FromInt(c)])
                    = Times(action, KmPerStroke)

\* a Swimming record of two hours has been reported: speed 0.5 km/h,
\* calories 256, distance 0.9936 km
C3_Witness ==
    /\ Reported
    /\ Last = <<"SWM", <<FromInt(720), FromInt(2), FromInt(80), FromInt(25),
                         FromInt(40)>> >>
    /\ info.speed = Frac(1, 2)
    /\ info.calories = FromInt(256)
    /\ info.distance = Frac(9936, 10000)

GoldenRun == <<"RUN", <<FromInt(15000), FromInt(1), FromInt(75)>> >>

\* C4 as stated: read_package("RUN", [15000, 1, 75]) returns a Running
\* record whose calories are 1285.5 to the precision of that figure (within
\* 0.05).
C4_Calories1285 ==
    (Reported /\ Last = GoldenRun)
    => /\ training.cls = "Running"
       /\ Leq(Frac(128545, 100), get_spent_calories(training))
       /\ Leq(get_spent_calories(training), Frac(128555, 100))

\* C4 amended: read_package("RUN", [15000, 1, 75]) returns a Running record
\* whose calories are 699.75, printed as 699.750.
C4_Calories699 ==
    (Reported /\ Last = GoldenRun)
    => /\ training.cls = "Running"
       /\ get_spent_calories(training) = Frac(69975, 100)
       /\ info.calories = Frac(69975, 100)
       /\ training_message.calories = 699750

\* the golden package has been read and reported
C4_Witness ==
    /\ Reported
    /\ Last = GoldenRun
    /\ stdout[idx - 1].training_type = "Running"

(***************************************************************************)
(* The dispatch table, the field counts and the records as the interface   *)
(* describes them, against which the dispatcher and the driver are held.   *)
(***************************************************************************)
KnownCodes == {"SWM", "RUN", "WLK"}

VariantOf(code) ==
    CASE code = "SWM" -> "Swimming"
      [] code = "RUN" -> "Running"
      [] code = "WLK" -> "SportsWalking"

FieldCount(code) ==
    CASE code = "RUN" -> 3
      [] code = "WLK" -> 4
      [] code = "SWM" -> 5

\* the package p has a known code and as many fields as its variant takes
Accepted(p) == p[1] \in KnownCodes /\ Len(p[2]) = FieldCount(p[1])

\* the record of an accepted package: its fields in the order of the list
RecordOf(p) ==
    LET d == p[2]
    IN  CASE p[1] = "RUN" ->
                [cls |-> "Running", action |-> d[1], duration |-> d[2],
                 weight |-> d[3]]
          [] p[1] = "WLK" ->
                [cls |-> "SportsWalking", action |-> d[1],
                 duration |-> d[2], weight |-> d[3], height |-> d[4]]
          [] p[1] = "SWM" ->
                [cls |-> "Swimming", action |-> d[1], duration |-> d[2],
                 weight |-> d[3], length_pool |-> d[4],
                 count_pool |-> d[5]]

DurationOf(p) == p[2][2]

\* read_package has been called for the package at idx
Entered == pc \in {"main", "crashed"}

Cur == packages[idx]

\* what the variable training holds when read_package returns nothing for
\* the package at idx: the record of the package before, if any
PreviousRecord == IF idx = 1 THEN NoTraining ELSE RecordOf(packages[idx - 1])

\* C5: read_package with a code other than SWM, RUN, WLK fails with KeyError
\* (a LookupError) before any record is built: no record is returned, no
\* line is printed for the package and no default variant is used.  With a
\* known code the record returned is of exactly the matching variant.
C5_Dispatch ==
    /\ (Entered /\ Cur[1] \notin KnownCodes)
       => /\ pc = "crashed"
          /\ error = "KeyError"
          /\ training = PreviousRecord
          /\ Len(stdout) = idx - 1
    /\ error = "KeyError" => (pc = "crashed" /\ Cur[1] \notin KnownCodes)
    /\ (Entered /\ Cur[1] \in KnownCodes
            /\ error \notin {"KeyError", "TypeError"})
       => training.cls = VariantOf(Cur[1])

\* the second package has the code XYZ: the first line is out, the lookup
\* has failed and training is still the first record
C5_Witness ==
    /\ Entered
    /\ idx = 2
    /\ Cur[1] = "XYZ"
    /\ error = "KeyError"
    /\ training.cls = "Running"
    /\ Len(stdout) = 1

\* C6: read_package with a known code and a list whose length is not the
\* variant's field count (3 for RUN, 4 for WLK, 5 for SWM) fails with
\* TypeError: no record is returned, and a record that is returned holds
\* every field of the list in order, none defaulted and none dropped.
C6_Arity ==
    /\ (Entered /\ Cur[1] \in KnownCodes
            /\ Len(Cur[2]) # FieldCount(Cur[1]))
       => /\ pc = "crashed"
          /\ error = "TypeError"
          /\ training = PreviousRecord
          /\ Len(stdout) = idx - 1
    /\ error = "TypeError"
       => (pc = "crashed" /\ Cur[1] \in KnownCodes
              /\ Len(Cur[2]) # FieldCount(Cur[1]))
    /\ pc = "main" => (Accepted(Cur) /\ training = RecordOf(Cur))

\* the second package is RUN with four fields: TypeError, nothing returned
C6_Witness ==
    /\ Entered
    /\ idx = 2
    /\ Cur[1] = "RUN"
    /\ Len(Cur[2]) = 4
    /\ error = "TypeError"
    /\ training = RecordOf(packages[1])

\* C7 as stated: the report of a record whose duration is <= 0 fails with
\* ZeroDivisionError, so no such record is ever reported and main ends in
\* that error with no line printed.
C7_NonPositiveDurationFails ==
    /\ Reported => Positive(DurationOf(Last))
    /\ (pc = "crashed" /\ Accepted(Cur) /\ Leq(DurationOf(Cur), Zero))
       => (error = "ZeroDivisionError" /\ Len(stdout) = idx - 1)

\* C7 amended: for every variant, the report of a record whose duration is
\* 0 fails with ZeroDivisionError raised inside main, after the record has
\* been constructed; no line is printed for it.  A negative duration raises
\* nothing: main fails only on a zero duration or, for SportsWalking, a zero
\* height.
C7_ZeroDurationFails ==
    /\ Reported => DurationOf(Last) # Zero
    /\ (Entered /\ Accepted(Cur) /\ DurationOf(Cur) = Zero)
       => /\ training = RecordOf(Cur)
          /\ pc = "crashed"
             => (error = "ZeroDivisionError" /\ Len(stdout) = idx - 1)
    /\ (pc = "crashed" /\ Accepted(Cur))
       => /\ error = "ZeroDivisionError"
          /\ \/ DurationOf(Cur) = Zero
             \/ Cur[1] = "WLK" /\ Cur[2][4] = Zero

\* a Swimming record with duration 0 was constructed as the second package
\* and its report failed after the first line
C7_Witness ==
    /\ pc = "crashed"
    /\ idx = 2
    /\ error = "ZeroDivisionError"
    /\ training.cls = "Swimming"
    /\ training.duration = Zero
    /\ Len(stdout) = 1

\* the action counts 0, 3000, ..., 3000 * MaxActionSteps
ActionCounts == {FromInt(3000 * k) : k \in 0..MaxActionSteps}

WithAction(t, a) == [t EXCEPT !.action = a]

\* duration > 0, weight > 0 and, for SportsWalking, height > 0
ValidFields(t) ==
    /\ Positive(t.duration)
    /\ Positive(t.weight)
    /\ t.cls = "SportsWalking" => Positive(t.height)

Fails(p) ==
    \/ ~Accepted(p)
    \/ DurationOf(p) = Zero
    \/ p[1] = "WLK" /\ p[2][4] = Zero

\* the report line of an accepted package
ReportLine(p) == get_message(show_training_info(RecordOf(p)))

\* C9: the driver takes the packages in input order and prints one line per
\* package, the k-th line being the report of the k-th package; when a
\* package fails the script ends there: the lines of the packages before it
\* are out, and no line is printed for it or for any later package.
C9_InputOrder ==
    /\ \A k \in 1..Len(stdout) :
          /\ k <= Len(packages)
          /\ ~Fails(packages[k])
          /\ stdout[k] = ReportLine(packages[k])
    /\ pc \in {"loop", "main"} => (Len(stdout) = idx - 1 /\ error = "none")
    /\ pc = "done" => (Len(stdout) = Len(packages) /\ error = "none")
    /\ pc = "crashed"
       => (Fails(Cur) /\ Len(stdout) = idx - 1 /\ error # "none")

\* of three packages the second has failed: one line is out, and the third
\* package, which would not fail, is never read
C9_Witness ==
    /\ pc = "crashed"
    /\ Len(packages) = 3
    /\ idx = 2
    /\ Len(stdout) = 1
    /\ stdout[1] = ReportLine(packages[1])
    /\ ~Fails(packages[3])

\* C10: reporting reads the record and the InfoMessage and changes neither:
\* from its construction on, the record holds the fields of its package,
\* and after the report the InfoMessage is the report of the record, so that
\* reporting the record again and formatting the InfoMessage again give the
\* line that was printed.
C10_ReadOnly ==
    /\ (pc = "main" \/ (pc = "crashed" /\ Accepted(Cur)))
       => training = RecordOf(Cur)
    /\ Reported
       => /\ training = RecordOf(Last)
          /\ info = show_training_info(training)
          /\ info.training_type = VariantOf(Last[1])
          /\ info.duration = DurationOf(Last)
          /\ training_message = get_message(info)
          /\ stdout[idx - 1] = training_message
          /\ get_message(show_training_info(training)) = stdout[idx - 1]

\* the same package has been reported twice, with the same line each time
C10_Witness ==
    /\ Reported
    /\ idx = 3
    /\ packages[1] = packages[2]
    /\ training.action # Zero
    /\ stdout[1] = stdout[2]
    /\ get_message(info) = stdout[1]

====
